---- MODULE Spec2Model ----
(***************************************************************************)
(* pymaid morphology engine: Strahler ordering, Strahler pruning,          *)
(* stitching, synapse flow centrality and the segregation index            *)
(* (src/pymaid/morpho.py), modelled over small skeleton trees.             *)
(*                                                                         *)
(* A neuron is a record                                                    *)
(*   nodes      node table: the treenode ids in row order                  *)
(*   parent_id  column parent_id, None for a root                          *)
(*   type       column type (root / slab / branch / end)                   *)
(*   strahler_index, flow_centrality   derived columns                     *)
(*   columns    names of the derived columns present in the node table     *)
(*   connectors connector table: rows [treenode_id, relation]              *)
(*   soma       id of the soma node, or None                               *)
(*   pos        position of each node (one integer coordinate)             *)
(*   centrality_method   attribute set by flow_centrality / bending_flow   *)
(***************************************************************************)
EXTENDS Integers, Sequences, FiniteSets, TLC

VARIABLES x, args, pc, ret, loc

vars == <<x, args, pc, ret, loc>>

\* None in id- and index-valued cells (ids and Strahler indices are >= 1).
None == 0

\* flow_centrality cells: None is <<>>, a number v is <<v>>.
NotComputed == <<>>

\* relation codes of the connector table
PRE == 0

POST == 1

(***************************************************************************)
(* Bounds                                                                  *)
(***************************************************************************)
\* nodes of the exhaustively enumerated forests given to strahler_index
MaxNodes == 5

\* nodes of the largest complete binary tree given to strahler_index
MaxHeap == 13

\* nodes of the exhaustively enumerated forests given to prune_by_strahler
MaxPruneNodes == 4

\* connectors of a neuron given to prune_by_strahler
MaxConn == 2

\* largest Strahler index a to_prune argument names
MaxToPrune == 2

\* nodes of the exhaustively enumerated forests given to flow_centrality
MaxFlowNodes == 4

\* neurons handed to stitch_neurons
MaxNeurons == 3

\* nodes of each neuron handed to stitch_neurons
MaxStitchNodes == 2

\* largest node coordinate of the neurons handed to stitch_neurons
MaxCoord == 1

\* presynaptic, and postsynaptic, connectors of a fragment handed to
\* segregation_index
MaxSyn == 2

\* nodes of the trees given to split_axon_dendrite
MaxSplitNodes == 3

\* nodes of the trees given to the entry points that take a mode string
MaxModeNodes == 3

\* nodes of the trees given to the entry points that take inplace
MaxInplaceNodes == 3

\* rows of the user list
MaxUsers == 2

\* entries of the list given to eval_user_ids
MaxEntries == 2

(***************************************************************************)
(* Sequence helpers                                                        *)
(***************************************************************************)
Range(s) == {s[k] : k \in DOMAIN s}

RECURSIVE SeqFilter(_, _)
\* rows of table s whose value is in set S, in row order
SeqFilter(s, S) ==
    IF s = <<>> THEN <<>>
    ELSE (IF Head(s) \in S THEN <<Head(s)>> ELSE <<>>) \o SeqFilter(Tail(s), S)

RECURSIVE SeqMax(_)
SeqMax(s) ==
    IF Len(s) = 1 THEN s[1]
    ELSE LET m == SeqMax(Tail(s)) IN IF s[1] >= m THEN s[1] ELSE m

Count(s, v) == Cardinality({k \in DOMAIN s : s[k] = v})

RECURSIVE SeqSum(_)
SeqSum(s) == IF s = <<>> THEN 0 ELSE Head(s) + SeqSum(Tail(s))

(***************************************************************************)
(* Tree model and classifier                                               *)
(***************************************************************************)
\* forests on ids 1..n in which every parent has a smaller id than its child
Forests(n) == {f \in [1..n -> 0..(n - 1)] : \A k \in 1..n : f[k] < k}

\* the complete binary tree on ids 1..n (node k hangs below k \div 2)
Heap(n) == [k \in 1..n |-> k \div 2]

\* children of node n in row order
ChildsOf(nodes, parent_id, n) ==
    SeqFilter(nodes, {c \in Range(nodes) : parent_id[c] = n})

\* graph_utils.generate_list_of_childs: node id -> list of its children
generate_list_of_childs(nrn) ==
    [n \in Range(nrn.nodes) |-> ChildsOf(nrn.nodes, nrn.parent_id, n)]

\* graph_utils.classify_nodes: a node without parent is 'root' whatever its
\* number of children (bending_flow adds a branching root separately)
classify_nodes(nodes, parent_id) ==
    [n \in Range(nodes) |->
        LET nchilds == Len(ChildsOf(nodes, parent_id, n)) IN
        IF parent_id[n] = None THEN "root"
        ELSE IF nchilds = 0 THEN "end"
        ELSE IF nchilds >= 2 THEN "branch"
        ELSE "slab"]

\* rows of the node table with the given type, in row order
NodesOfType(nrn, t) ==
    SeqFilter(nrn.nodes, {n \in Range(nrn.nodes) : nrn.type[n] = t})

\* x.root: the nodes without parent
Roots(nrn) == SeqFilter(nrn.nodes, {n \in Range(nrn.nodes) : nrn.parent_id[n] = None})

\* a neuron as the fetch layer builds it from a parent table
MakeNeuron(parent, conns, soma, pos) ==
    LET nodes == [k \in 1..Len(parent) |-> k] IN
    [nodes |-> nodes,
     parent_id |-> parent,
     type |-> classify_nodes(nodes, parent),
     columns |-> {},
     strahler_index |-> [k \in 1..Len(parent) |-> None],
     flow_centrality |-> [k \in 1..Len(parent) |-> NotComputed],
     centrality_method |-> "none",
     connectors |-> conns,
     soma |-> soma,
     pos |-> pos]

NoPos(parent) == [k \in DOMAIN parent |-> 0]

(***************************************************************************)
(* strahler_index (morpho.py 263-415)                                      *)
(***************************************************************************)
\* method test of the branch rule with the two method names exchanged
ThisBranchIndexSwapped(previous_indices, method) ==
    IF Len(previous_indices) = 0 THEN 1
    ELSE IF Len(previous_indices) = 1 THEN previous_indices[1]
    ELSE IF Count(previous_indices, SeqMax(previous_indices)) >= 2
            \/ method = "standard"
         THEN SeqMax(previous_indices) + 1
    ELSE SeqMax(previous_indices)

\* index of the branch that starts at a node whose children carry
\* previous_indices
ThisBranchIndex(previous_indices, method) ==
    IF Len(previous_indices) = 0 THEN 1
    ELSE IF Len(previous_indices) = 1 THEN previous_indices[1]
    ELSE IF Count(previous_indices, SeqMax(previous_indices)) >= 2
            \/ method = "greedy"
         THEN SeqMax(previous_indices) + 1
    ELSE SeqMax(previous_indices)

RECURSIVE WalkSpine(_, _, _, _)
\* the walk down the spine: from this_node towards the root until the parent
\* is a branch node or there is no parent
WalkSpine(nrn, branch_nodes, this_node, spine) ==
    LET parent_node == nrn.parent_id[this_node] IN
    IF parent_node \notin branch_nodes /\ parent_node # None
    THEN WalkSpine(nrn, branch_nodes, parent_node, Append(spine, parent_node))
    ELSE [spine |-> spine, parent_node |-> parent_node]

\* locals of strahler_index before the while loop
StrahlerLocals(nrn) ==
    [strahler_index |-> [n \in Range(nrn.nodes) |-> None],
     starting_points |-> NodesOfType(nrn, "end"),
     new_starting_points |-> <<>>,
     starting_points_done |-> <<>>,
     nodes_processed |-> {},
     i |-> 0]

\* head of one pass of the while loop
BeginRound(l) ==
    [l EXCEPT !.new_starting_points = <<>>,
              !.starting_points_done = <<>>,
              !.i = 1]

\* body of the for loop with the parent taken as ready whether or not all
\* its childs have been processed
ProcessPointAlwaysReady(nrn, method, l) ==
    LET en == l.starting_points[l.i]
        list_of_childs == generate_list_of_childs(nrn)
        branch_nodes == Range(NodesOfType(nrn, "branch"))
        previous_indices ==
            [k \in 1..Len(list_of_childs[en]) |->
                l.strahler_index[list_of_childs[en][k]]]
        this_branch_index == ThisBranchIndex(previous_indices, method)
        w == WalkSpine(nrn, branch_nodes, en, <<en>>)
        processed == l.nodes_processed \cup Range(w.spine)
        node_ready == w.parent_node # None
    IN [l EXCEPT
          !.strahler_index =
              [n \in DOMAIN l.strahler_index |->
                  IF n \in Range(w.spine) THEN this_branch_index
                  ELSE l.strahler_index[n]],
          !.nodes_processed = processed,
          !.starting_points_done = Append(l.starting_points_done, en),
          !.new_starting_points =
              IF node_ready THEN Append(l.new_starting_points, w.parent_node)
              ELSE l.new_starting_points,
          !.i = l.i + 1]

\* body of the for loop for starting point number l.i
ProcessPoint(nrn, method, l) ==
    LET en == l.starting_points[l.i]
        list_of_childs == generate_list_of_childs(nrn)
        branch_nodes == Range(NodesOfType(nrn, "branch"))
        previous_indices ==
            [k \in 1..Len(list_of_childs[en]) |->
                l.strahler_index[list_of_childs[en][k]]]
        this_branch_index == ThisBranchIndex(previous_indices, method)
        w == WalkSpine(nrn, branch_nodes, en, <<en>>)
        processed == l.nodes_processed \cup Range(w.spine)
        node_ready ==
            /\ w.parent_node # None
            /\ \A child \in Range(list_of_childs[w.parent_node]) :
                    child \in processed
    IN [l EXCEPT
          !.strahler_index =
              [n \in DOMAIN l.strahler_index |->
                  IF n \in Range(w.spine) THEN this_branch_index
                  ELSE l.strahler_index[n]],
          !.nodes_processed = processed,
          !.starting_points_done = Append(l.starting_points_done, en),
          !.new_starting_points =
              IF node_ready THEN Append(l.new_starting_points, w.parent_node)
              ELSE l.new_starting_points,
          !.i = l.i + 1]

\* end of one pass: drop the processed starting points, add the new ones
EndRound(l) ==
    [l EXCEPT
       !.starting_points =
           SeqFilter(l.starting_points,
                     Range(l.starting_points) \ Range(l.starting_points_done))
           \o l.new_starting_points,
       !.i = 0]

RECURSIVE RunLoop(_, _, _)
\* the while loop run to its end
RunLoop(nrn, method, l) ==
    IF l.i = 0
    THEN (IF l.starting_points = <<>> THEN l
          ELSE RunLoop(nrn, method, BeginRound(l)))
    ELSE IF l.i <= Len(l.starting_points)
    THEN RunLoop(nrn, method, ProcessPoint(nrn, method, l))
    ELSE RunLoop(nrn, method, EndRound(l))

\* the whole call: the neuron with its strahler_index column written
strahler_index(nrn, method) ==
    [nrn EXCEPT
       !.strahler_index =
           RunLoop(nrn, method, StrahlerLocals(nrn)).strahler_index,
       !.columns = @ \cup {"strahler_index"}]

NoLocals == [i |-> 0]

NoArgs == [none |-> TRUE]

\* the trees strahler_index is run on
StrahlerTrees ==
    UNION {Forests(n) : n \in 1..MaxNodes} \cup {Heap(n) : n \in 1..MaxHeap}

InitStrahler ==
    /\ \E t \in StrahlerTrees : x = MakeNeuron(t, <<>>, None, NoPos(t))
    /\ \E m \in {"standard", "greedy"} : args = [method |-> m]
    /\ pc = "start"
    /\ ret = None
    /\ loc = NoLocals

\* lines 308-334
StrahlerStart ==
    /\ pc = "start"
    /\ loc' = StrahlerLocals(x)
    /\ pc' = "while"
    /\ UNCHANGED <<x, args, ret>>

\* lines 336-340
StrahlerBeginRound ==
    /\ pc = "while"
    /\ loc.starting_points # <<>>
    /\ loc' = BeginRound(loc)
    /\ pc' = "for"
    /\ UNCHANGED <<x, args, ret>>

\* lines 342-397
StrahlerProcess ==
    /\ pc = "for"
    /\ loc.i <= Len(loc.starting_points)
    /\ loc' = ProcessPoint(x, args.method, loc)
    /\ UNCHANGED <<x, args, pc, ret>>

\* lines 399-405
StrahlerEndRound ==
    /\ pc = "for"
    /\ loc.i > Len(loc.starting_points)
    /\ loc' = EndRound(loc)
    /\ pc' = "while"
    /\ UNCHANGED <<x, args, ret>>

\* lines 407-415
StrahlerFinish ==
    /\ pc = "while"
    /\ loc.starting_points = <<>>
    /\ x' = [x EXCEPT !.strahler_index = loc.strahler_index,
                      !.columns = @ \cup {"strahler_index"}]
    /\ pc' = "done"
    /\ UNCHANGED <<args, ret, loc>>

NextStrahler ==
    \/ StrahlerStart
    \/ StrahlerBeginRound
    \/ StrahlerProcess
    \/ StrahlerEndRound
    \/ StrahlerFinish

SpecStrahler == InitStrahler /\ [][NextStrahler]_vars

\* C1: after strahler_index, every node with a parent has an index that is
\* at most its parent's index, also when the parent is a root with two or
\* more children.
C1_ParentIndexAtLeastChild ==
    pc = "done" =>
        \A n \in Range(x.nodes) :
            x.parent_id[n] # None =>
                x.strahler_index[x.parent_id[n]] >= x.strahler_index[n]

\* C2: on the same tree, every node's index under method 'greedy' is at
\* least its index under method 'standard'; a node gets an index under one
\* method exactly when it gets one under the other.
C2_GreedyAtLeastStandard ==
    (pc = "done" /\ args.method = "greedy") =>
        LET std == strahler_index(x, "standard").strahler_index IN
        \A n \in Range(x.nodes) :
            /\ x.strahler_index[n] >= std[n]
            /\ (x.strahler_index[n] = None) = (std[n] = None)

\* a finished greedy run on a tree where some node's greedy index is strictly
\* larger than its standard index
C2_Witness ==
    /\ pc = "done"
    /\ args.method = "greedy"
    /\ \E n \in Range(x.nodes) :
          x.strahler_index[n] > strahler_index(x, "standard").strahler_index[n]
          /\ strahler_index(x, "standard").strahler_index[n] >= 2

\* C19: after strahler_index every end node has index 1, every node with
\* exactly one child has the index of that child, and every node with two
\* or more children has the largest index of its children, raised by one
\* when two or more children share it or the method is 'greedy'.
C19_IndexFollowsChildren ==
    pc = "done" =>
        \A n \in Range(x.nodes) :
            LET childs == generate_list_of_childs(x)[n]
                prev == [k \in DOMAIN childs |-> x.strahler_index[childs[k]]]
            IN /\ x.type[n] = "end" => x.strahler_index[n] = 1
               /\ Len(childs) = 1 => x.strahler_index[n] = prev[1]
               /\ Len(childs) >= 2 =>
                     x.strahler_index[n] =
                         IF Count(prev, SeqMax(prev)) >= 2
                            \/ args.method = "greedy"
                         THEN SeqMax(prev) + 1
                         ELSE SeqMax(prev)

\* C20: a node with two or more children is in the frontier only when each
\* of its children has been processed and has an index, it is there at
\* most once, and a step of the for loop puts a node there only if it has
\* never been processed or put there before.
C20_BranchReadyBeforeFrontier ==
    /\ [](pc \in {"while", "for"} =>
            LET frontier == IF pc = "for"
                            THEN loc.starting_points \o loc.new_starting_points
                            ELSE loc.starting_points IN
            \A k \in DOMAIN frontier :
                LET childs == generate_list_of_childs(x)[frontier[k]] IN
                /\ Len(childs) >= 2 =>
                      \A c \in Range(childs) :
                          /\ c \in loc.nodes_processed
                          /\ loc.strahler_index[c] # None
                /\ \A j \in DOMAIN frontier : frontier[j] = frontier[k] => j = k)
    /\ [][StrahlerProcess =>
            \A n \in Range(loc'.new_starting_points)
                      \ Range(loc.new_starting_points) :
                /\ n \notin loc.nodes_processed
                /\ n \notin Range(loc.starting_points)]_vars

\* the for loop is about to compute the index of a branch node whose
\* children, all processed, carry different indices
C20_Witness ==
    /\ pc = "for"
    /\ loc.i <= Len(loc.starting_points)
    /\ LET childs ==
              generate_list_of_childs(x)[loc.starting_points[loc.i]] IN
       /\ Len(childs) >= 2
       /\ Range(childs) \subseteq loc.nodes_processed
       /\ \E c, d \in Range(childs) :
              loc.strahler_index[c] # loc.strahler_index[d]

\* C21: for every finite well-formed tree (a single-node tree, a tree whose
\* root has several children and a multi-rooted tree included) the frontier
\* loop of strahler_index ends, and when it has ended every node of the
\* tree has a non-null Strahler index.
C21_EveryNodeIndexed ==
    pc = "done" => \A n \in Range(x.nodes) : x.strahler_index[n] # None

(***************************************************************************)
(* CatmaidNeuron.reroot and CatmaidNeuron._clear_temp_attr (pymaid.core)   *)
(***************************************************************************)
RECURSIVE PathToRoot(_, _)
\* the nodes from n up to its root, n first
PathToRoot(parent_id, n) ==
    IF parent_id[n] = None THEN <<n>>
    ELSE <<n>> \o PathToRoot(parent_id, parent_id[n])

\* position of value v in sequence s
IndexOf(s, v) == CHOOSE k \in DOMAIN s : s[k] = v

\* the cached structures are dropped and the node types regenerated; the
\* derived columns stay in the table
clear_temp_attr(nrn) ==
    [nrn EXCEPT !.type = classify_nodes(nrn.nodes, nrn.parent_id)]

\* the parent links along the path from new_root to the old root are reversed
reroot(nrn, new_root) ==
    LET path == PathToRoot(nrn.parent_id, new_root)
        parent_id ==
            [n \in DOMAIN nrn.parent_id |->
                IF n = new_root THEN None
                ELSE IF n \in Range(path) THEN path[IndexOf(path, n) - 1]
                ELSE nrn.parent_id[n]]
    IN clear_temp_attr([nrn EXCEPT !.parent_id = parent_id])

(***************************************************************************)
(* prune_by_strahler (morpho.py 418-511)                                   *)
(***************************************************************************)
RECURSIVE NearestRemaining(_, _, _)
\* the while loop of lines 491-494: the first node in remaining_tns on the
\* way up from this_tn; None when the walk asks parent_dict for the parent
\* of None (KeyError)
NearestRemaining(parent_dict, remaining_tns, this_tn) ==
    IF this_tn = None THEN None
    ELSE IF this_tn \in remaining_tns THEN this_tn
    ELSE NearestRemaining(parent_dict, remaining_tns, parent_dict[this_tn])

RECURSIVE RelocateFrom(_, _, _, _)
\* the for loop of lines 489-495 from row k on; it stops at the first
\* KeyError and leaves the rows before it relocated
RelocateFrom(connectors, k, parent_dict, remaining_tns) ==
    IF k > Len(connectors) THEN [connectors |-> connectors, error |-> "none"]
    ELSE IF connectors[k].treenode_id \in remaining_tns
    THEN RelocateFrom(connectors, k + 1, parent_dict, remaining_tns)
    ELSE LET this_tn == NearestRemaining(parent_dict, remaining_tns,
                            parent_dict[connectors[k].treenode_id])
         IN IF this_tn = None
            THEN [connectors |-> connectors, error |-> "KeyError"]
            ELSE RelocateFrom(
                    [connectors EXCEPT ![k].treenode_id = this_tn],
                    k + 1, parent_dict, remaining_tns)

\* lines 485-486 without the row mask: every row of the connector table
ConnectorsOnAnyNode(connectors, S) == connectors

RECURSIVE ConnectorsOn(_, _)
\* rows of the connector table whose treenode is in set S
ConnectorsOn(connectors, S) ==
    IF connectors = <<>> THEN <<>>
    ELSE (IF Head(connectors).treenode_id \in S THEN <<Head(connectors)>>
          ELSE <<>>) \o ConnectorsOn(Tail(connectors), S)

\* lines 481-482 without the negation of the row mask
RemainingNodesNotNegated(nrn, to_prune) ==
    SeqFilter(nrn.nodes,
        {n \in Range(nrn.nodes) : nrn.strahler_index[n] \in to_prune})

\* lines 481-482: the rows whose strahler_index is not in to_prune
RemainingNodes(nrn, to_prune) ==
    SeqFilter(nrn.nodes,
        {n \in Range(nrn.nodes) : nrn.strahler_index[n] \notin to_prune})

\* the node table cut down to the rows in nodes (columns follow the rows)
RestrictNodes(nrn, nodes) ==
    LET keep == Range(nodes)
        Col(c) == [n \in keep |-> c[n]]
    IN [nrn EXCEPT
          !.nodes = nodes,
          !.parent_id = [n \in keep |-> nrn.parent_id[n]],
          !.type = [n \in keep |-> nrn.type[n]],
          !.pos = [n \in keep |-> nrn.pos[n]],
          !.strahler_index = Col(nrn.strahler_index),
          !.flow_centrality = Col(nrn.flow_centrality),
          !.soma = IF nrn.soma \in keep THEN nrn.soma ELSE None]

\* line 503 left out: the rows keep the parent ids they had
FixParentsKeepAll(nrn) == nrn

\* line 503: a row whose parent is not in the table becomes a root
FixParents(nrn) ==
    [nrn EXCEPT !.parent_id =
        [n \in DOMAIN nrn.parent_id |->
            IF nrn.parent_id[n] \in Range(nrn.nodes) THEN nrn.parent_id[n]
            ELSE None]]

\* line 466 with the force_strahler_update flag inverted
NeedStrahlerInverted(neuron, a) ==
    "strahler_index" \notin neuron.columns \/ ~a.force_strahler_update

\* line 466: the indices are computed when the column is missing or an
\* update is forced
NeedStrahler(neuron, a) ==
    "strahler_index" \notin neuron.columns \/ a.force_strahler_update

\* the call on neuron (the caller's object or its copy): the neuron as the
\* call leaves it, and the exception that ended the call, if any
prune_by_strahler(neuron, a) ==
    LET n1 == IF a.reroot_soma /\ neuron.soma # None
              THEN reroot(neuron, neuron.soma) ELSE neuron
        n2 == IF NeedStrahler(n1, a)
              THEN strahler_index(n1, "standard") ELSE n1
        parent_dict == n2.parent_id
        n3 == RestrictNodes(n2, RemainingNodes(n2, a.to_prune))
        remaining_tns == Range(n3.nodes)
        rel == RelocateFrom(n3.connectors, 1, parent_dict, remaining_tns)
    IN IF ~a.relocate_connectors
       THEN [neuron |-> clear_temp_attr(FixParents(
                 [n3 EXCEPT !.connectors =
                     ConnectorsOn(n3.connectors, remaining_tns)])),
             error |-> "none"]
       ELSE IF rel.error # "none"
       THEN [neuron |-> [n3 EXCEPT !.connectors = rel.connectors],
             error |-> rel.error]
       ELSE [neuron |-> clear_temp_attr(FixParents(
                 [n3 EXCEPT !.connectors = rel.connectors])),
             error |-> "none"]

\* the single unbranched chain of 5 nodes
ChainTree == [k \in 1..5 |-> k - 1]

PruneTrees == UNION {Forests(n) : n \in 1..MaxPruneNodes} \cup {ChainTree}

\* connector tables with at most MaxConn presynaptic rows, on distinct nodes
\* in ascending order
ConnTables(n) ==
    {<<>>}
    \cup {<<[treenode_id |-> a, relation |-> PRE]>> : a \in 1..n}
    \cup (IF MaxConn >= 2
          THEN {<<[treenode_id |-> p[1], relation |-> PRE],
                  [treenode_id |-> p[2], relation |-> PRE]>> :
                    p \in {q \in (1..n) \X (1..n) : q[1] < q[2]}}
          ELSE {})
    \cup (IF MaxConn >= 3
          THEN {<<[treenode_id |-> p[1], relation |-> PRE],
                  [treenode_id |-> p[2], relation |-> PRE],
                  [treenode_id |-> p[3], relation |-> PRE]>> :
                    p \in {q \in (1..n) \X (1..n) \X (1..n) :
                              q[1] < q[2] /\ q[2] < q[3]}}
          ELSE {})

PruneArgs ==
    [to_prune : (SUBSET (1..MaxToPrune)) \ {{}},
     reroot_soma : BOOLEAN,
     inplace : BOOLEAN,
     force_strahler_update : BOOLEAN,
     relocate_connectors : BOOLEAN]

InitPrune ==
    /\ \E t \in PruneTrees :
         \E c \in ConnTables(Len(t)) :
           \E s \in {None, Len(t)} :
              x = MakeNeuron(t, c, s, NoPos(t))
    /\ args = NoArgs
    /\ pc = "fresh"
    /\ ret = None
    /\ loc = NoLocals

\* the neuron the caller holds after a call: the object itself after an
\* inplace call, the returned copy otherwise
Result == IF args.inplace THEN x ELSE ret

\* a strahler_index call (inplace) before the first pruning
CallStrahler ==
    /\ pc = "fresh"
    /\ "strahler_index" \notin x.columns
    /\ \E m \in {"standard", "greedy"} : x' = strahler_index(x, m)
    /\ UNCHANGED <<args, pc, ret, loc>>

\* first prune_by_strahler call, on x
Prune ==
    /\ pc = "fresh"
    /\ \E a \in PruneArgs :
         LET r == prune_by_strahler(x, a) IN
         /\ args' = a
         /\ pc' = IF r.error = "none" THEN "pruned" ELSE r.error
         /\ x' = IF a.inplace THEN r.neuron ELSE x
         /\ ret' = IF a.inplace \/ r.error # "none" THEN None ELSE r.neuron
    /\ UNCHANGED loc

\* second prune_by_strahler call, on the result of the first, with the same
\* arguments
PruneAgain ==
    /\ pc = "pruned"
    /\ LET r == prune_by_strahler(Result, args) IN
       /\ pc' = IF r.error = "none" THEN "repruned" ELSE r.error
       /\ x' = IF args.inplace THEN r.neuron ELSE x
       /\ ret' = IF args.inplace \/ r.error # "none" THEN None ELSE r.neuron
    /\ UNCHANGED <<args, loc>>

NextPrune ==
    \/ CallStrahler
    \/ Prune
    \/ PruneAgain

SpecPrune == InitPrune /\ [][NextPrune]_vars

\* C3 (as stated): a second prune_by_strahler pass with the same arguments
\* removes no node, whether it reuses the stored strahler_index column or
\* recomputes it.
C3_SecondPassRemovesNothing ==
    [][(PruneAgain /\ pc' = "repruned") =>
            Len(Result'.nodes) = Len(Result.nodes)]_vars

\* C3 (amended): a second pass that reuses the stored strahler_index column
\* (force_strahler_update = False) ends without error and removes no node.
C3_SecondPassReusingColumn ==
    [][(PruneAgain /\ ~args.force_strahler_update) =>
            /\ pc' = "repruned"
            /\ Result'.nodes = Result.nodes]_vars

\* a second pass without force_strahler_update has run after a first pass
\* that removed some but not all nodes
C3_Witness ==
    /\ pc = "repruned"
    /\ ~args.force_strahler_update
    /\ ~args.inplace
    /\ Len(ret.nodes) < Len(x.nodes)
    /\ Len(ret.nodes) > 0

IsChain5(nrn) ==
    /\ Len(nrn.nodes) = 5
    /\ Cardinality({n \in Range(nrn.nodes) : nrn.type[n] = "root"}) = 1
    /\ Cardinality({n \in Range(nrn.nodes) : nrn.type[n] = "end"}) = 1
    /\ Cardinality({n \in Range(nrn.nodes) : nrn.type[n] = "slab"}) = 3

C9_NeverEmptyResult ==
    pc \in {"pruned", "repruned"} => Result.nodes # <<>>

\* C22: whenever prune_by_strahler reroots the tree onto its soma, the
\* strahler_index values it uses to choose the nodes to delete are computed
\* after that reroot on the rerooted tree; values stored before the reroot
\* are never used.
C22_PruneUsesIndexOfRerootedTree ==
    [][(Prune /\ args'.reroot_soma /\ x.soma # None /\ pc' = "pruned") =>
            Range(Result'.nodes) =
                Range(RemainingNodes(
                    strahler_index(reroot(x, x.soma), "standard"),
                    args'.to_prune))]_vars

\* C23: prune_by_strahler with relocate_connectors=True keeps every
\* connector: a connector on a surviving node is unchanged and a connector
\* on a deleted node is reattached to the nearest surviving proper ancestor
\* of that node; the walk up the parent links ends at a surviving node for
\* every connector and every target set, also when all ancestors of the
\* connector's node up to the root are deleted.
C23_RelocationKeepsEveryConnector ==
    [][(Prune /\ args'.relocate_connectors) =>
            /\ pc' = "pruned"
            /\ Len(Result'.connectors) = Len(x.connectors)
            /\ LET parent_id ==
                       IF args'.reroot_soma /\ x.soma # None
                       THEN reroot(x, x.soma).parent_id ELSE x.parent_id
                   surviving == Range(Result'.nodes)
               IN \A k \in DOMAIN x.connectors :
                     LET tn == x.connectors[k].treenode_id
                         new == Result'.connectors[k].treenode_id
                         up == Tail(PathToRoot(parent_id, tn))
                     IN IF tn \in surviving THEN new = tn
                        ELSE \E j \in DOMAIN up :
                               /\ up[j] = new
                               /\ new \in surviving
                               /\ \A i \in 1..(j - 1) :
                                      up[i] \notin surviving]_vars

\* the neuron a prune_by_strahler step is called on
PruneInput == IF pc = "fresh" THEN x ELSE Result

\* C24: after prune_by_strahler every surviving node's parent_id is either
\* null or the id of a surviving node: a survivor whose parent was deleted
\* has parent_id null (it is a new root), and a survivor whose parent
\* survived keeps that same parent.
C24_SurvivorParents ==
    [][((Prune \/ PruneAgain) /\ pc' \in {"pruned", "repruned"}) =>
            LET parent_id ==
                    IF args'.reroot_soma /\ PruneInput.soma # None
                    THEN reroot(PruneInput, PruneInput.soma).parent_id
                    ELSE PruneInput.parent_id
                surviving == Range(Result'.nodes)
            IN \A n \in surviving :
                  /\ Result'.parent_id[n] \in surviving \cup {None}
                  /\ Result'.parent_id[n] =
                        IF parent_id[n] \in surviving THEN parent_id[n]
                        ELSE None]_vars

\* a call on a copy has deleted the parent of a surviving node, which is a
\* root of the returned neuron
C24_Witness ==
    /\ pc = "pruned"
    /\ ~args.inplace
    /\ ~args.reroot_soma
    /\ \E n \in Range(ret.nodes) :
          /\ x.parent_id[n] # None
          /\ x.parent_id[n] \notin Range(ret.nodes)
          /\ ret.parent_id[n] = None

\* C25: after prune_by_strahler, with either setting of
\* relocate_connectors, every connector in the result is attached to a
\* treenode that is present in the result's node table; without relocation
\* the connectors of the result are exactly those whose treenode survived.
C25_ConnectorsOnSurvivingNodes ==
    [][((Prune \/ PruneAgain) /\ pc' \in {"pruned", "repruned"}) =>
            LET surviving == Range(Result'.nodes) IN
            /\ \A k \in DOMAIN Result'.connectors :
                  Result'.connectors[k].treenode_id \in surviving
            /\ ~args'.relocate_connectors =>
                  Result'.connectors =
                      SelectSeq(PruneInput.connectors,
                                LAMBDA c : c.treenode_id \in surviving)]_vars

\* a call on a copy, without relocation, has dropped a connector of a
\* deleted node and kept a connector of a surviving node
C25_Witness ==
    /\ pc = "pruned"
    /\ ~args.inplace
    /\ ~args.relocate_connectors
    /\ Len(ret.connectors) = 1
    /\ Len(x.connectors) = 2
    /\ \E k \in DOMAIN x.connectors :
          x.connectors[k].treenode_id \notin Range(ret.nodes)

(***************************************************************************)
(* graph_utils.distal_to and CatmaidNeuron.downsample                      *)
(***************************************************************************)
\* a is distal to b: b lies on the way from a up to its root (a itself
\* included)
IsDistalTo(nrn, a, b) == b \in Range(PathToRoot(nrn.parent_id, a))

\* distal_to(x, a, b) summed over a: for every node of b the number of
\* nodes of a that are distal to it
distal_to(nrn, a, b) ==
    [n \in b |-> Cardinality({q \in a : IsDistalTo(nrn, q, n)})]

\* treenodes that carry a connector of the given relation
ConnectorNodes(nrn, relation) ==
    {nrn.connectors[k].treenode_id :
        k \in {j \in DOMAIN nrn.connectors :
                  nrn.connectors[j].relation = relation}}

RECURSIVE NearestKept(_, _, _)
NearestKept(parent_id, keep, n) ==
    IF n = None \/ n \in keep THEN n
    ELSE NearestKept(parent_id, keep, parent_id[n])

\* downsampling by a huge factor: only root, branch and end nodes and the
\* nodes with connectors stay, each hanging below its nearest kept ancestor
downsample(nrn) ==
    LET keep == {n \in Range(nrn.nodes) :
                    \/ nrn.type[n] # "slab"
                    \/ n \in ConnectorNodes(nrn, PRE)
                    \/ n \in ConnectorNodes(nrn, POST)}
        kept == RestrictNodes(nrn, SeqFilter(nrn.nodes, keep))
    IN clear_temp_attr([kept EXCEPT !.parent_id =
           [n \in keep |-> NearestKept(nrn.parent_id, keep, nrn.parent_id[n])]])

(***************************************************************************)
(* flow_centrality (morpho.py 827-967), polypre = False                    *)
(***************************************************************************)
\* line 918 without the nodes that carry synapses
CalcNodeIdsBranchOnly(y) ==
    {n \in Range(y.nodes) : y.type[n] = "branch"}

\* line 918: nodes typed 'branch' and nodes with synapses
CalcNodeIds(y) ==
    {n \in Range(y.nodes) :
        \/ y.type[n] = "branch"
        \/ n \in ConnectorNodes(y, PRE) \cup ConnectorNodes(y, POST)}

\* line 937
Centrifugal(total_post, distal_pre, distal_post, n) ==
    (total_post - distal_post[n]) * distal_pre[n]

\* line 941
Centripetal(total_post, distal_pre, distal_post, n) ==
    distal_post[n] * (total_post - distal_pre[n])

\* the call on x: x as the call leaves it and the exception that ended the
\* call, if any
flow_centrality(nrn, mode) ==
    LET y == downsample(nrn)
        pre_node_ids == ConnectorNodes(y, PRE)
        post_node_ids == ConnectorNodes(y, POST)
        total_post == Cardinality(post_node_ids)
        calc_node_ids == CalcNodeIds(y)
        distal_pre == distal_to(y, pre_node_ids, calc_node_ids)
        distal_post == distal_to(y, post_node_ids, calc_node_ids)
        res(n) ==
            IF mode = "centrifugal"
            THEN Centrifugal(total_post, distal_pre, distal_post, n)
            ELSE Centrifugal(total_post, distal_pre, distal_post, n)
                 + Centripetal(total_post, distal_pre, distal_post, n)
        cleared == [nrn EXCEPT
                      !.flow_centrality =
                          [n \in Range(nrn.nodes) |-> NotComputed],
                      !.columns = @ \cup {"flow_centrality"}]
    IN IF mode \notin {"centrifugal", "centripetal", "sum"}
       THEN [neuron |-> nrn, error |-> "ValueError"]
       ELSE IF mode = "centripetal"
       THEN \* line 958 reads centrifugal, which line 937 did not bind
            [neuron |-> cleared, error |-> "NameError"]
       ELSE [neuron |-> [cleared EXCEPT
                 !.flow_centrality =
                     [n \in Range(nrn.nodes) |->
                         IF n \in calc_node_ids THEN <<res(n)>>
                         ELSE NotComputed],
                 !.centrality_method = mode],
             error |-> "none"]

(***************************************************************************)
(* bending_flow (morpho.py 712-824), polypre = False                       *)
(***************************************************************************)
\* lines 801-805: distal_post[left] * distal_pre[right] summed over the
\* ordered pairs of different children of one branch point
PairFlow(childs, distal_pre, distal_post) ==
    SeqSum([i \in DOMAIN childs |->
        SeqSum([j \in DOMAIN childs |->
            IF i = j THEN 0
            ELSE distal_post[childs[i]] * distal_pre[childs[j]]])])

\* the call on x: x as the call leaves it and the exception that ended the
\* call, if any
bending_flow(nrn) ==
    LET y == downsample(nrn)
        pre_node_ids == ConnectorNodes(y, PRE)
        post_node_ids == ConnectorNodes(y, POST)
        bp_node_ids == Range(NodesOfType(y, "branch"))
        bp_childs == [t \in bp_node_ids |-> ChildsOf(y.nodes, y.parent_id, t)]
        childs == UNION {Range(bp_childs[t]) : t \in bp_node_ids}
        distal_pre == distal_to(y, pre_node_ids, childs)
        distal_post == distal_to(y, post_node_ids, childs)
        flow == [bp \in bp_node_ids |->
                    PairFlow(bp_childs[bp], distal_pre, distal_post)]
    IN IF \E k \in DOMAIN Roots(y) :
             Len(ChildsOf(y.nodes, y.parent_id, Roots(y)[k])) > 1
       THEN \* line 778: list(root) on a single treenode id
            [neuron |-> nrn, error |-> "TypeError"]
       ELSE [neuron |-> [nrn EXCEPT
                 !.flow_centrality =
                     [n \in Range(nrn.nodes) |->
                         IF n \in bp_node_ids THEN <<flow[n]>>
                         ELSE NotComputed],
                 !.columns = @ \cup {"flow_centrality"},
                 !.centrality_method = "bending"],
             error |-> "none"]

\* the 7-node binary tree: root 1; 2, 3 below 1; 4, 5 below 2; 6, 7 below 3
BinaryTree7 == Heap(7)

FlowTrees == UNION {Forests(n) : n \in 1..MaxFlowNodes} \cup {BinaryTree7}

RECURSIVE SynapseRows(_, _, _)
\* connector table for an assignment syn of relation sets to nodes k..n
SynapseRows(syn, k, n) ==
    IF k > n THEN <<>>
    ELSE (IF PRE \in syn[k]
          THEN <<[treenode_id |-> k, relation |-> PRE]>> ELSE <<>>)
         \o (IF POST \in syn[k]
             THEN <<[treenode_id |-> k, relation |-> POST]>> ELSE <<>>)
         \o SynapseRows(syn, k + 1, n)

FlowModes == {"centrifugal", "centripetal", "sum", "bending"}

InitFlow ==
    /\ \E t \in FlowTrees :
         \E syn \in [1..Len(t) -> SUBSET {PRE, POST}] :
            x = MakeNeuron(t, SynapseRows(syn, 1, Len(t)), None, NoPos(t))
    /\ \E m \in FlowModes : args = [mode |-> m]
    /\ pc = "fresh"
    /\ ret = None
    /\ loc = NoLocals

\* flow_centrality(x, mode)
FlowCentrality ==
    /\ pc = "fresh"
    /\ LET r == flow_centrality(x, args.mode) IN
       /\ x' = r.neuron
       /\ pc' = IF r.error = "none" THEN "done" ELSE r.error
    /\ UNCHANGED <<args, ret, loc>>

\* bending_flow(x)
BendingFlow ==
    /\ pc = "fresh"
    /\ LET r == bending_flow(x) IN
       /\ x' = r.neuron
       /\ pc' = IF r.error = "none" THEN "bent" ELSE r.error
    /\ UNCHANGED <<args, ret, loc>>

NextFlow ==
    \/ FlowCentrality
    \/ BendingFlow

SpecFlow == InitFlow /\ [][NextFlow]_vars

\* presynapses at 4 and 6, postsynapses at 5 and 7 on the 7-node binary tree
IsScenario7(nrn) ==
    /\ nrn.parent_id = BinaryTree7
    /\ nrn.connectors = <<[treenode_id |-> 4, relation |-> PRE],
                          [treenode_id |-> 5, relation |-> POST],
                          [treenode_id |-> 6, relation |-> PRE],
                          [treenode_id |-> 7, relation |-> POST]>>

\* C7: centrifugal flow_centrality on the 7-node binary tree with
\* presynapses at c, e and postsynapses at d, f stores 1 on a and on b and
\* 0 on the root r.
C7_Scenario7Centrifugal ==
    (pc = "done" /\ args.mode = "centrifugal" /\ IsScenario7(x)) =>
        /\ x.flow_centrality[2] = <<1>>
        /\ x.flow_centrality[3] = <<1>>
        /\ x.flow_centrality[1] = <<0>>

\* nodes of nrn that carry at least one connector
SynapseNodes(nrn) == ConnectorNodes(nrn, PRE) \cup ConnectorNodes(nrn, POST)

C27_EveryModeStoresItsValue ==
    [][(FlowCentrality /\ args.mode \in {"centrifugal", "centripetal", "sum"})
        => /\ pc' = "done"
           /\ x'.centrality_method = args.mode
           /\ LET total_post == Cardinality(ConnectorNodes(x, POST))
                  calc == {n \in Range(x.nodes) :
                              x.type[n] = "branch" \/ n \in SynapseNodes(x)}
                  distal_pre == distal_to(x, ConnectorNodes(x, PRE), calc)
                  distal_post == distal_to(x, ConnectorNodes(x, POST), calc)
                  fugal(n) == (total_post - distal_post[n]) * distal_pre[n]
                  petal(n) == distal_post[n] * (total_post - distal_pre[n])
              IN \A n \in calc :
                    x'.flow_centrality[n] =
                        <<CASE args.mode = "centrifugal" -> fugal(n)
                            [] args.mode = "centripetal" -> petal(n)
                            [] OTHER -> fugal(n) + petal(n)>>]_vars

\* C28: bending_flow stores on every node with two or more children, a
\* root with two or more children included, the sum over all ordered pairs
\* (left, right) of distinct children of distal_post[left] *
\* distal_pre[right].
C28_BendingOnEveryFork ==
    [][BendingFlow =>
          /\ pc' = "bent"
          /\ \A n \in Range(x.nodes) :
                LET childs == ChildsOf(x.nodes, x.parent_id, n)
                    distal_pre ==
                        distal_to(x, ConnectorNodes(x, PRE), Range(childs))
                    distal_post ==
                        distal_to(x, ConnectorNodes(x, POST), Range(childs))
                IN Len(childs) >= 2 =>
                      x'.flow_centrality[n] =
                          <<SeqSum([i \in DOMAIN childs |->
                              SeqSum([j \in DOMAIN childs |->
                                  IF i = j THEN 0
                                  ELSE distal_post[childs[i]]
                                       * distal_pre[childs[j]]])])>>]_vars

(***************************************************************************)
(* stitch_neurons (morpho.py 970-1080), tn_to_stitch = None                *)
(***************************************************************************)
\* pd.concat of the node tables of neuron a and neuron b onto a
ConcatTables(a, b) ==
    [a EXCEPT
       !.nodes = a.nodes \o b.nodes,
       !.parent_id = a.parent_id @@ b.parent_id,
       !.type = a.type @@ b.type,
       !.pos = a.pos @@ b.pos,
       !.strahler_index = a.strahler_index @@ b.strahler_index,
       !.flow_centrality = a.flow_centrality @@ b.flow_centrality,
       !.columns = a.columns \cap b.columns,
       !.connectors = a.connectors \o b.connectors]

RECURSIVE ConcatRest(_)
\* lines 1028-1029 with the second neuron of the list left out
ConcatRest(neurons) ==
    IF Len(neurons) <= 2 THEN neurons[1]
    ELSE ConcatRest(<<ConcatTables(neurons[1], neurons[3])>>
                    \o SubSeq(neurons, 4, Len(neurons)))

RECURSIVE ConcatAll(_)
\* lines 1028-1029: the tables of all neurons, in order, put on neurons[0]
ConcatAll(neurons) ==
    IF Len(neurons) = 1 THEN neurons[1]
    ELSE ConcatAll(<<ConcatTables(neurons[1], neurons[2])>>
                   \o SubSeq(neurons, 3, Len(neurons)))

\* lines 1048-1053: the rows considered for stitching
Treenodes(nrn, method) ==
    IF method = "LEAFS"
    THEN SeqFilter(nrn.nodes,
             {n \in Range(nrn.nodes) : nrn.type[n] \in {"end", "root"}})
    ELSE nrn.nodes

\* one entry of the cdist matrix; positions have one coordinate, and the
\* squared distance orders pairs as the euclidean distance does
Dist(a, tnA, b, tnB) == (a.pos[tnA] - b.pos[tnB]) * (a.pos[tnA] - b.pos[tnB])

\* numpy argmin of a vector: the first position of its smallest entry
Argmin(v) ==
    CHOOSE k \in DOMAIN v :
        /\ \A j \in DOMAIN v : v[k] <= v[j]
        /\ \A j \in DOMAIN v : j < k => v[j] > v[k]

\* line 1070 with tnB written for tnA
AttachToB(nB, tnA, tnB) ==
    [nB EXCEPT !.parent_id =
        [n \in DOMAIN nB.parent_id |->
            IF nB.parent_id[n] = None THEN tnB ELSE nB.parent_id[n]]]

\* line 1070: the rows of nB without parent get parent tnA
AttachTo(nB, tnA, tnB) ==
    [nB EXCEPT !.parent_id =
        [n \in DOMAIN nB.parent_id |->
            IF nB.parent_id[n] = None THEN tnA ELSE nB.parent_id[n]]]

\* lines 1048-1062: the treenodes to connect
StitchPair(stitched_n, nB, method) ==
    LET treenodesA == Treenodes(stitched_n, method)
        treenodesB == Treenodes(nB, method)
    IN [\* dist.argmin(axis=0)[0]: the row closest to the first column
        tnA |-> treenodesA[Argmin([k \in DOMAIN treenodesA |->
                   Dist(stitched_n, treenodesA[k], nB, treenodesB[1])])],
        \* dist.argmin(axis=1)[0]: the column closest to the first row
        tnB |-> treenodesB[Argmin([k \in DOMAIN treenodesB |->
                   Dist(stitched_n, treenodesA[1], nB, treenodesB[k])])]]

\* lines 1044-1075: one pass of the for loop, merging nB into stitched_n
MergeStep(stitched_n, nB, method) ==
    LET p == CHOOSE q \in {StitchPair(stitched_n, nB, method)} : TRUE
    IN ConcatTables(stitched_n, AttachTo(reroot(nB, p.tnB), p.tnA, p.tnB))

RECURSIVE MergeAll(_, _, _)
\* the for loop of line 1043 over neurons[1:]
MergeAll(stitched_n, rest, method) ==
    IF rest = <<>> THEN stitched_n
    ELSE MergeAll(MergeStep(stitched_n, Head(rest), method), Tail(rest), method)

\* line 1020 as a bare return
ReturnNothing(neurons) == [neuron |-> None, error |-> "none"]

\* line 1020: return neurons[0], an IndexError on the empty list
ReturnFirst(neurons) ==
    IF Len(neurons) = 0 THEN [neuron |-> None, error |-> "IndexError"]
    ELSE [neuron |-> neurons[1], error |-> "none"]

\* the call: the returned neuron and the exception that ended the call, if
\* any (the inputs are copied first and stay as they are)
stitch_neurons(neurons, method) ==
    IF method \notin {"LEAFS", "ALL", "NONE"}
    THEN [neuron |-> None, error |-> "ValueError"]
    ELSE IF Len(neurons) < 2
    THEN ReturnFirst(neurons)
    ELSE IF method = "NONE"
    THEN [neuron |-> clear_temp_attr(ConcatAll(neurons)), error |-> "none"]
    ELSE [neuron |-> clear_temp_attr(
                        MergeAll(neurons[1], Tail(neurons), method)),
          error |-> "none"]

\* neuron number k of a call: ids (k-1)*MaxStitchNodes + 1 .. ; a presynaptic
\* connector on each of its first k-1 nodes
StitchInput(k, parent, pos) ==
    LET off == (k - 1) * MaxStitchNodes
        ids == [j \in 1..Len(parent) |-> off + j]
        parent_id == [n \in Range(ids) |->
                         IF parent[n - off] = None THEN None
                         ELSE off + parent[n - off]]
    IN [nodes |-> ids,
        parent_id |-> parent_id,
        type |-> classify_nodes(ids, parent_id),
        columns |-> {},
        strahler_index |-> [n \in Range(ids) |-> None],
        flow_centrality |-> [n \in Range(ids) |-> NotComputed],
        centrality_method |-> "none",
        connectors |-> [j \in 1..(IF k - 1 < Len(parent) THEN k - 1
                                  ELSE Len(parent)) |->
                           [treenode_id |-> off + j, relation |-> PRE]],
        soma |-> None,
        pos |-> [n \in Range(ids) |-> pos[n - off]]]

\* parent table and positions of one input neuron
StitchShapes ==
    UNION {Forests(n) \X [1..n -> 0..MaxCoord] : n \in 1..MaxStitchNodes}

\* the neurons of a call: up to MaxNeurons inputs
InitStitch ==
    /\ \E N \in 0..MaxNeurons :
         \E c \in [1..N -> StitchShapes] :
            x = [k \in 1..N |-> StitchInput(k, c[k][1], c[k][2])]
    /\ \E m \in {"LEAFS", "ALL", "NONE"} : args = [method |-> m]
    /\ pc = "fresh"
    /\ ret = None
    /\ loc = NoLocals

\* stitch_neurons(*x, method=method)
Stitch ==
    /\ pc = "fresh"
    /\ LET r == stitch_neurons(x, args.method) IN
       /\ ret' = r.neuron
       /\ pc' = IF r.error = "none" THEN "done" ELSE r.error
    /\ UNCHANGED <<x, args, loc>>

NextStitch == Stitch

SpecStitch == InitStitch /\ [][NextStitch]_vars

NodeCounts(neurons) == [k \in DOMAIN neurons |-> Len(neurons[k].nodes)]

ConnectorCounts(neurons) == [k \in DOMAIN neurons |-> Len(neurons[k].connectors)]

\* C4: with method 'NONE' on two or more trees the result has as many nodes
\* and as many connectors as the inputs together, and every node has the
\* parent it had in its input (a root stays a root).
C4_NoneConcatenates ==
    (pc = "done" /\ args.method = "NONE" /\ Len(x) >= 2) =>
        /\ Len(ret.nodes) = SeqSum(NodeCounts(x))
        /\ Len(ret.connectors) = SeqSum(ConnectorCounts(x))
        /\ \A k \in DOMAIN x : \A n \in Range(x[k].nodes) :
              /\ n \in Range(ret.nodes)
              /\ ret.parent_id[n] = x[k].parent_id[n]

\* three trees, one of them with two roots, have been combined with 'NONE'
C4_Witness ==
    /\ pc = "done"
    /\ args.method = "NONE"
    /\ Len(x) = 3
    /\ \E k \in DOMAIN x : Len(Roots(x[k])) = 2
    /\ Len(ret.connectors) > 0

RECURSIVE Up(_, _, _)
\* the node reached from n after at most k steps along the parent links
Up(parent_id, n, k) ==
    IF k = 0 \/ parent_id[n] = None THEN n
    ELSE Up(parent_id, parent_id[n], k - 1)

SingleRooted(nrn) == Len(Roots(nrn)) = 1

C10_FewerThanTwoFails ==
    (pc # "fresh" /\ Len(x) < 2) => (pc # "done" /\ ret = None)

\* C10 (amended): called with exactly one tree, stitch_neurons (after its
\* warning) returns a copy of that tree unchanged and raises nothing; called
\* with no tree it ends in an IndexError and returns nothing.
C10_OneTreeReturned ==
    (pc # "fresh" /\ Len(x) < 2) =>
        IF Len(x) = 1
        THEN pc = "done" /\ ret = x[1]
        ELSE pc = "IndexError" /\ ret = None

\* stitch_neurons has returned from a call with a single tree of two nodes
C10_Witness ==
    /\ pc = "done"
    /\ Len(x) = 1
    /\ Len(ret.nodes) = 2

\* C26: in each merge step of stitch_neurons (method ALL or LEAFS) the
\* pair (tnA, tnB) that is joined minimizes the euclidean distance over all
\* pairs of one candidate node of the accumulated tree and one candidate
\* node of the incoming tree; no other candidate pair is strictly closer.
C26_JoinedPairIsClosest ==
    (pc = "done" /\ args.method \in {"ALL", "LEAFS"}) =>
        \A k \in 2..Len(x) :
            LET stitched_n == MergeAll(x[1], SubSeq(x, 2, k - 1), args.method)
                p == StitchPair(stitched_n, x[k], args.method)
            IN /\ ret.parent_id[p.tnB] = p.tnA
               /\ \A a \in Range(Treenodes(stitched_n, args.method)) :
                     \A b \in Range(Treenodes(x[k], args.method)) :
                        Dist(stitched_n, p.tnA, x[k], p.tnB)
                            <= Dist(stitched_n, a, x[k], b)

(***************************************************************************)
(* segregation_index (morpho.py 633-710) on a list of fragments            *)
(*                                                                         *)
(* Real numbers are fractions <<numerator, denominator>> in lowest terms   *)
(* with a positive denominator; math.log is tabulated to three decimals.   *)
(***************************************************************************)
RECURSIVE Gcd(_, _)
Gcd(a, b) == IF b = 0 THEN a ELSE Gcd(b, a % b)

Abs(a) == IF a < 0 THEN 0 - a ELSE a

Frac(num, den) ==
    LET g == Gcd(Abs(num), Abs(den))
        sgn == IF den < 0 THEN 0 - 1 ELSE 1
    IN <<sgn * (num \div g), sgn * (den \div g)>>

FAdd(a, b) ==
    LET g == Gcd(a[2], b[2])
    IN Frac(a[1] * (b[2] \div g) + b[1] * (a[2] \div g), (a[2] \div g) * b[2])

FSub(a, b) == FAdd(a, <<0 - b[1], b[2]>>)

FMul(a, b) ==
    LET g1 == Gcd(Abs(a[1]), b[2])
        g2 == Gcd(Abs(b[1]), a[2])
    IN Frac((a[1] \div g1) * (b[1] \div g2), (a[2] \div g2) * (b[2] \div g1))

FDiv(a, b) == FMul(a, Frac(b[2], b[1]))

\* 1000 * ln(k) for k = 1..24
LogTable ==
    <<0, 693, 1099, 1386, 1609, 1792, 1946, 2079,
      2197, 2303, 2398, 2485, 2565, 2639, 2708, 2773,
      2833, 2890, 2944, 2996, 3045, 3091, 3135, 3178>>

\* math.log of the positive fraction a
Log(a) == Frac(LogTable[a[1]] - LogTable[a[2]], 1000)

\* n.n_connectors
n_connectors(nrn) == Len(nrn.connectors)

\* n.n_postsynapses
n_postsynapses(nrn) ==
    Cardinality({k \in DOMAIN nrn.connectors : nrn.connectors[k].relation = POST})

\* n.n_presynapses
n_presynapses(nrn) ==
    Cardinality({k \in DOMAIN nrn.connectors : nrn.connectors[k].relation = PRE})

\* lines 691-694 and 703-704: -(p ln p + (1-p) ln (1-p)), 0 outside 0<p<1
Entropy(p) ==
    IF p[1] > 0 /\ p[1] < p[2]
    THEN LET q == FSub(<<1, 1>>, p)
         IN FSub(<<0, 1>>, FAdd(FMul(p, Log(p)), FMul(q, Log(q))))
    ELSE <<0, 1>>

RECURSIVE WeightedSumFirst(_, _, _)
\* line 699 with every entropy weighted by the first fragment's connectors
WeightedSumFirst(frags, entropy, i) ==
    IF i > Len(frags) THEN <<0, 1>>
    ELSE FAdd(FMul(entropy[i], <<n_connectors(frags[1]), 1>>),
              WeightedSumFirst(frags, entropy, i + 1))

RECURSIVE WeightedSum(_, _, _)
\* line 699: sum of e * x[i].n_connectors over the fragments from i on
WeightedSum(frags, entropy, i) ==
    IF i > Len(frags) THEN <<0, 1>>
    ELSE FAdd(FMul(entropy[i], <<n_connectors(frags[i]), 1>>),
              WeightedSum(frags, entropy, i + 1))

\* the call on a list of fragments: H, or the exception that ends the call
segregation_index(frags) ==
    LET total == SeqSum([i \in DOMAIN frags |-> n_connectors(frags[i])])
        total_post == SeqSum([i \in DOMAIN frags |-> n_postsynapses(frags[i])])
        entropy == [i \in DOMAIN frags |->
                       Entropy(Frac(n_postsynapses(frags[i]),
                                    n_connectors(frags[i])))]
        S == FMul(<<1, total>>, WeightedSum(frags, entropy, 1))
        p_norm == Frac(total_post, total)
        S_norm == Entropy(p_norm)
    IN IF \E i \in DOMAIN frags : n_connectors(frags[i]) = 0
       THEN [H |-> None, error |-> "ZeroDivisionError"]
       ELSE IF total = 0
       THEN [H |-> None, error |-> "ZeroDivisionError"]
       ELSE IF p_norm[1] > 0 /\ p_norm[1] < p_norm[2]
       THEN [H |-> FSub(<<1, 1>>, FDiv(S, S_norm)), error |-> "none"]
       ELSE [H |-> <<0, 1>>, error |-> "none"]

\* a fragment with npre presynaptic and npost postsynaptic connectors
Fragment(npre, npost) ==
    MakeNeuron(<<None>>,
               [k \in 1..(npre + npost) |->
                   [treenode_id |-> 1,
                    relation |-> IF k <= npre THEN PRE ELSE POST]],
               None, <<0>>)

Fragments == {Fragment(a, b) : a \in 0..MaxSyn, b \in 0..MaxSyn}

InitSeg ==
    /\ x \in UNION {[1..N -> Fragments] : N \in 2..3}
    /\ args = NoArgs
    /\ pc = "fresh"
    /\ ret = None
    /\ loc = NoLocals

\* segregation_index(x) on the list of fragments x
SegregationIndex ==
    /\ pc = "fresh"
    /\ LET r == segregation_index(x) IN
       /\ ret' = r.H
       /\ pc' = IF r.error = "none" THEN "done" ELSE r.error
    /\ UNCHANGED <<x, args, loc>>

NextSeg == SegregationIndex

SpecSeg == InitSeg /\ [][NextSeg]_vars

\* C6: the segregation index of a 2-fragment split is the same when the two
\* fragments are passed in swapped order (the same H, or the same failure).
C6_SwapSymmetric ==
    (pc # "fresh" /\ Len(x) = 2) =>
        LET swapped == segregation_index(<<x[2], x[1]>>) IN
        /\ swapped.H = ret
        /\ swapped.error = (IF pc = "done" THEN "none" ELSE pc)

\* C12: when some fragment has no connectors (so also when the fragments
\* together have none) segregation_index ends in the explicit
\* missing-annotation error, not in a raw division by zero.
C12_ZeroConnectorsExplicitError ==
    (pc # "fresh" /\ \E i \in DOMAIN x : n_connectors(x[i]) = 0) =>
        pc = "MissingAnnotationError"

\* H has been computed for two fragments with different synapse counts and
\* lies strictly between 0 and 1
C6_Witness ==
    /\ pc = "done"
    /\ Len(x) = 2
    /\ n_connectors(x[1]) # n_connectors(x[2])
    /\ n_postsynapses(x[1]) # n_postsynapses(x[2])
    /\ ret[1] > 0
    /\ ret[1] < ret[2]

(***************************************************************************)
(* graph_utils.dist_between and graph_utils.cut_neuron                     *)
(***************************************************************************)
\* path distance between node a and the root above it, every edge counted
\* as one
dist_between(nrn, a, root) == Len(PathToRoot(nrn.parent_id, a)) - 1

\* the nodes of nrn restricted to set S, with root made the parentless node
Subtree(nrn, S, root) ==
    LET part == RestrictNodes(nrn, SeqFilter(nrn.nodes, S)) IN
    clear_temp_attr([part EXCEPT
        !.parent_id = [n \in S |-> IF n = root THEN None
                                   ELSE nrn.parent_id[n]],
        !.connectors = ConnectorsOn(nrn.connectors, S)])

\* cut_neuron(x, cut): the part distal to cut, rooted at cut, and the
\* proximal rest, which keeps cut as an end node
cut_neuron(nrn, cut) ==
    LET dist == {n \in Range(nrn.nodes) : IsDistalTo(nrn, n, cut)}
        prox == (Range(nrn.nodes) \ dist) \cup {cut}
        old_root == PathToRoot(nrn.parent_id, cut)[
                        Len(PathToRoot(nrn.parent_id, cut))]
    IN <<Subtree(nrn, dist, cut), Subtree(nrn, prox, old_root)>>

(***************************************************************************)
(* split_axon_dendrite (morpho.py 514-631)                                 *)
(***************************************************************************)
\* x.nodes.flow_centrality.max(): the largest computed value, None cells
\* skipped
FlowMax(nrn) ==
    LET vals == {nrn.flow_centrality[n][1] :
                    n \in {m \in Range(nrn.nodes) :
                              nrn.flow_centrality[m] # NotComputed}}
    IN CHOOSE v \in vals : \A w \in vals : w <= v

\* line 594: the rows whose flow_centrality equals the maximum
CutCandidates(nrn) ==
    SeqFilter(nrn.nodes,
        {n \in Range(nrn.nodes) :
            /\ nrn.flow_centrality[n] # NotComputed
            /\ nrn.flow_centrality[n][1] = FlowMax(nrn)})

\* line 597 without the sort
FirstOfCut(nrn, cut) == cut[1]

\* line 597: the first entry of cut sorted (stably) by distance to root[0]
NearestToRoot(nrn, cut) ==
    cut[Argmin([k \in DOMAIN cut |->
                   dist_between(nrn, cut[k], Roots(nrn)[1])])]

\* x.graph.degree(n): childs plus parent
Degree(nrn, n) ==
    Len(ChildsOf(nrn.nodes, nrn.parent_id, n))
        + (IF nrn.parent_id[n] = None THEN 0 ELSE 1)

\* lines 616-619 with the comparison turned around
LabelFragmentsInverted(a, b) ==
    IF n_presynapses(a) > n_presynapses(b)
    THEN [dendrite |-> a, axon |-> b]
    ELSE [dendrite |-> b, axon |-> a]

\* lines 616-619
LabelFragments(a, b) ==
    IF n_presynapses(a) < n_presynapses(b)
    THEN [dendrite |-> a, axon |-> b]
    ELSE [dendrite |-> b, axon |-> a]

\* lines 573-584: x after the reroot and the flow calculation of the call,
\* and the exception that ended the calculation, if any
SplitPrepare(nrn, a) ==
    LET x1 == IF nrn.soma # None /\ nrn.soma \notin Range(Roots(nrn))
                 /\ a.reroot_soma
              THEN reroot(nrn, nrn.soma) ELSE nrn
        last_method == x1.centrality_method
    IN IF last_method # a.method
       THEN (IF a.method = "bending" THEN bending_flow(x1)
             ELSE flow_centrality(x1, a.method))
       ELSE [neuron |-> x1, error |-> "none"]

\* lines 599-631 for the cut point cut of neuron y
SplitAt(y, cut, a) ==
    LET f == cut_neuron(y, cut)
        l == LabelFragments(f[1], f[2])
    IN IF a.return_point
       THEN [neuron |-> y, cut |-> cut, ret |-> cut, error |-> "none"]
       ELSE IF Degree(y, cut) > 2 /\ a.primary_neurite
       THEN \* line 604 reads cut_neuron, which morpho.py does not bind
            [neuron |-> y, cut |-> cut, ret |-> None, error |-> "NameError"]
       ELSE [neuron |-> y, cut |-> cut, ret |-> <<l.axon, l.dendrite>>,
             error |-> "none"]

\* lines 586-631 for the neuron p.neuron that lines 573-584 leave
SplitAfter(p, a) ==
    IF p.error # "none"
    THEN [neuron |-> p.neuron, cut |-> None, ret |-> None, error |-> p.error]
    ELSE IF \A n \in Range(p.neuron.nodes) :
                p.neuron.flow_centrality[n] = NotComputed
    THEN \* line 597: first entry of an empty list
         [neuron |-> p.neuron, cut |-> None, ret |-> None,
          error |-> "IndexError"]
    ELSE CHOOSE r \in {SplitAt(p.neuron, cut, a) :
                          cut \in {NearestToRoot(p.neuron,
                                                 CutCandidates(p.neuron))}} :
             TRUE

\* the call: the caller's neuron as the call leaves it, the cut point, the
\* returned value and the exception that ended the call, if any
split_axon_dendrite(nrn, a) ==
    IF a.method \notin {"centrifugal", "centripetal", "sum", "bending"}
    THEN \* line 571 reads mode, which is not bound
         [neuron |-> nrn, cut |-> None, ret |-> None, error |-> "NameError"]
    ELSE CHOOSE r \in {SplitAfter(p, a) : p \in {SplitPrepare(nrn, a)}} : TRUE

\* trees with a single root
Trees(n) == {t \in Forests(n) : Cardinality({k \in 1..n : t[k] = None}) = 1}

\* connector table with at most one connector per node
OneSynapseRows(syn) ==
    SynapseRows([k \in DOMAIN syn |->
                    IF syn[k] = 2 THEN {} ELSE {syn[k]}], 1, Len(syn))

SplitMethods == {"centrifugal", "centripetal", "sum", "bending"}

\* a stem below the root that forks into two ends
StemTree == <<None, 1, 2, 2>>

\* a root with three ends
StarTree == <<None, 1, 1, 1>>

SplitTrees ==
    UNION {Trees(n) : n \in 1..MaxSplitNodes} \cup {StemTree, StarTree}

InitSplit ==
    /\ \E t \in SplitTrees :
         \E syn \in [1..Len(t) -> {PRE, POST, 2}] :
            \E soma \in {None} \cup (1..Len(t)) :
               x = MakeNeuron(t, OneSynapseRows(syn), soma, NoPos(t))
    /\ \E m \in SplitMethods :
         \E pn \in BOOLEAN, rs \in BOOLEAN, rp \in BOOLEAN :
            args = [method |-> m, primary_neurite |-> pn,
                    reroot_soma |-> rs, return_point |-> rp]
    /\ pc = "fresh"
    /\ ret = None
    /\ loc = NoLocals

\* split_axon_dendrite(x, method, primary_neurite, reroot_soma, return_point)
Split ==
    /\ pc = "fresh"
    /\ LET r == split_axon_dendrite(x, args) IN
       /\ x' = r.neuron
       /\ ret' = r.ret
       /\ loc' = [cut |-> r.cut]
       /\ pc' = IF r.error # "none" THEN r.error
                ELSE IF args.return_point THEN "point" ELSE "split"
    /\ UNCHANGED args

NextSplit == Split

SpecSplit == InitSplit /\ [][NextSplit]_vars

\* nodes of x whose flow_centrality equals the maximum over all nodes
MaxFlowNodesOf(nrn) == Range(CutCandidates(nrn))

\* C15: the cut point chosen by split_axon_dendrite carries the maximum
\* flow_centrality over all nodes, and no node with that maximum is nearer
\* to the root than the cut point.
C15_CutIsNearestMaximum ==
    pc \in {"point", "split"} =>
        /\ loc.cut \in MaxFlowNodesOf(x)
        /\ \A n \in MaxFlowNodesOf(x) :
              dist_between(x, loc.cut, Roots(x)[1])
                  <= dist_between(x, n, Roots(x)[1])

\* a cut point was chosen among several nodes with the maximum flow, and an
\* earlier row of the node table with the maximum lies farther from the root
C15_Witness ==
    /\ pc \in {"point", "split"}
    /\ Cardinality(MaxFlowNodesOf(x)) >= 2
    /\ CutCandidates(x)[1] # loc.cut
    /\ dist_between(x, CutCandidates(x)[1], Roots(x)[1])
          > dist_between(x, loc.cut, Roots(x)[1])

\* C16: a call with return_point=True returns the cut node and leaves the
\* caller's tree with the node set, the parent links and the root it had
\* before the call.
C16_ReturnPointLeavesTree ==
    [][(Split /\ args.return_point /\ pc' = "point") =>
          /\ ret' = loc'.cut
          /\ x'.nodes = x.nodes
          /\ x'.parent_id = x.parent_id
          /\ Roots(x') = Roots(x)]_vars

\* C17: of the two fragments produced at the cut point, the one labelled
\* dendrite has at most as many presynapses as the one labelled axon.
C17_DendriteHasFewerPresynapses ==
    pc = "split" =>
        n_presynapses(ret[2]) <= n_presynapses(ret[1])

\* a split has produced an axon with strictly more presynapses than the
\* dendrite, and the dendrite is the fragment distal to the cut point
C17_Witness ==
    /\ pc = "split"
    /\ n_presynapses(ret[2]) < n_presynapses(ret[1])
    /\ Roots(ret[2])[1] = loc.cut
    /\ Len(ret[2].nodes) > 1

\* C30: split_axon_dendrite (return_point=False) returns 3 fragments
\* (primary neurite, axon, dendrite) exactly when the cut node has degree
\* above 2 and primary_neurite is requested, and 2 fragments (axon,
\* dendrite) otherwise; it returns such a partition for every cut node of
\* degree above 2, a root with three or more children included.
C30_TwoOrThreeFragments ==
    (pc # "fresh" /\ ~args.return_point /\ loc.cut # None) =>
        /\ pc = "split"
        /\ Len(ret) = IF Degree(x, loc.cut) > 2 /\ args.primary_neurite
                      THEN 3 ELSE 2

(***************************************************************************)
(* The entry points that take a mode or method string                      *)
(***************************************************************************)
\* the values each docstring lists for the parameter
Documented(entry) ==
    CASE entry = "strahler_index" -> {"standard", "greedy"}
      [] entry = "flow_centrality" -> {"centrifugal", "centripetal", "sum"}
      [] entry = "split_axon_dendrite" -> SplitMethods
      [] entry = "stitch_neurons" -> {"LEAFS", "ALL", "NONE"}

EntryPoints ==
    {"strahler_index", "flow_centrality", "split_axon_dendrite",
     "stitch_neurons"}

\* every documented value of every entry point, and one that none documents
ModeStrings == UNION {Documented(e) : e \in EntryPoints} \cup {"unknown"}

\* the neuron stitch_neurons is given next to x: one node, its id above
\* every id of x
OtherNeuron == StitchInput(MaxModeNodes + 2, <<None>>, <<0>>)

InitMode ==
    /\ \E n \in 1..MaxModeNodes :
         \E t \in Trees(n) :
            \E syn \in [1..n -> {PRE, POST, 2}] :
               \E soma \in {None} \cup (1..n) :
                  x = MakeNeuron(t, OneSynapseRows(syn), soma, NoPos(t))
    /\ \E e \in EntryPoints : \E m \in ModeStrings :
          args = [entry |-> e, method |-> m]
    /\ pc = "fresh"
    /\ ret = None
    /\ loc = NoLocals

\* strahler_index(x, inplace=True, method=method)
ModeStrahler ==
    /\ pc = "fresh"
    /\ args.entry = "strahler_index"
    /\ x' = strahler_index(x, args.method)
    /\ pc' = "done"
    /\ UNCHANGED <<args, ret, loc>>

\* flow_centrality(x, mode=method)
ModeFlow ==
    /\ pc = "fresh"
    /\ args.entry = "flow_centrality"
    /\ LET r == flow_centrality(x, args.method) IN
       /\ x' = r.neuron
       /\ pc' = IF r.error = "none" THEN "done" ELSE r.error
    /\ UNCHANGED <<args, ret, loc>>

\* split_axon_dendrite(x, method=method)
ModeSplit ==
    /\ pc = "fresh"
    /\ args.entry = "split_axon_dendrite"
    /\ LET r == split_axon_dendrite(x,
                   [method |-> args.method, primary_neurite |-> TRUE,
                    reroot_soma |-> TRUE, return_point |-> FALSE]) IN
       /\ x' = r.neuron
       /\ ret' = r.ret
       /\ pc' = IF r.error = "none" THEN "done" ELSE r.error
    /\ UNCHANGED <<args, loc>>

\* stitch_neurons(x, other, method=method)
ModeStitch ==
    /\ pc = "fresh"
    /\ args.entry = "stitch_neurons"
    /\ LET r == stitch_neurons(<<x, OtherNeuron>>, args.method) IN
       /\ ret' = r.neuron
       /\ pc' = IF r.error = "none" THEN "done" ELSE r.error
    /\ UNCHANGED <<x, args, loc>>

NextMode ==
    \/ ModeStrahler
    \/ ModeFlow
    \/ ModeSplit
    \/ ModeStitch

SpecMode == InitMode /\ [][NextMode]_vars

\* C11: a call of one of the four entry points with a mode string outside
\* its documented set ends in the invalid-mode error (ValueError), returns
\* nothing and leaves the neuron as it was.
C11_UnknownModeRejected ==
    [][args.method \notin Documented(args.entry) =>
          /\ pc' = "ValueError"
          /\ x' = x
          /\ ret' = ret]_vars

(***************************************************************************)
(* arbor_confidence (morpho.py 50-113)                                     *)
(***************************************************************************)
\* the default of parameter confidences: (1, 0.9, 0.6, 0.4, 0.2)
DefaultConfidences == <<<<1, 1>>, <<9, 10>>, <<3, 5>>, <<2, 5>>, <<1, 5>>>>

\* an arbor_confidence cell without a value
NoConfidence == <<>>

\* a neuron whose node table has the confidence column conf
WithConfidence(nrn, conf) ==
    [confidence |-> conf,
     arbor_confidence |-> [n \in Range(nrn.nodes) |-> NoConfidence]] @@ nrn

RECURSIVE walk_to_leafs(_, _, _, _, _)
RECURSIVE WalkChilds(_, _, _, _, _)
\* lines 71-83: the confidence of this_node is the confidence handed down
\* times confidences[5 - confidence of this_node]; it is handed down to
\* every child
walk_to_leafs(nrn, confidences, col, this_node, this_confidence) ==
    LET c == FMul(this_confidence,
                  confidences[(5 - nrn.confidence[this_node]) + 1])
    IN WalkChilds(nrn, confidences, [col EXCEPT ![this_node] = c],
                  ChildsOf(nrn.nodes, nrn.parent_id, this_node), c)

\* lines 77-83 and 108-109: walk_to_leafs for every node of childs in turn
WalkChilds(nrn, confidences, col, childs, this_confidence) ==
    IF childs = <<>> THEN col
    ELSE WalkChilds(nrn, confidences,
             walk_to_leafs(nrn, confidences, col, Head(childs),
                           this_confidence),
             Tail(childs), this_confidence)

RECURSIVE WalkRoots(_, _, _, _)
\* lines 107-109: the childs of every root are walked with confidence 1
WalkRoots(nrn, confidences, col, roots) ==
    IF roots = <<>> THEN col
    ELSE WalkRoots(nrn, confidences,
             WalkChilds(nrn, confidences, col,
                        ChildsOf(nrn.nodes, nrn.parent_id, Head(roots)),
                        <<1, 1>>),
             Tail(roots))

\* the call without line 105: the roots are not seeded with 1
arbor_confidenceUnseeded(nrn, confidences) ==
    LET col == [n \in Range(nrn.nodes) |-> NoConfidence]
    IN [nrn EXCEPT
          !.arbor_confidence = WalkRoots(nrn, confidences, col, Roots(nrn)),
          !.columns = @ \cup {"arbor_confidence"}]

\* the call on x (the caller's object or its copy): x with its
\* arbor_confidence column written
arbor_confidence(nrn, confidences) ==
    LET col == [n \in Range(nrn.nodes) |->
                   IF n \in Range(Roots(nrn)) THEN <<1, 1>>
                   ELSE NoConfidence]
    IN [nrn EXCEPT
          !.arbor_confidence = WalkRoots(nrn, confidences, col, Roots(nrn)),
          !.columns = @ \cup {"arbor_confidence"}]

(***************************************************************************)
(* The inplace parameter of strahler_index, arbor_confidence and           *)
(* prune_by_strahler                                                       *)
(***************************************************************************)
\* the function working on the caller's object whatever inplace says
CallerWithoutCopy(inplace, before, after) == after

\* lines 308-309, 97-98, 459-460: the function works on the caller's object
\* when inplace is set and on a copy of it otherwise; this is the caller's
\* object after the call
CallerAfter(inplace, before, after) == IF inplace THEN after ELSE before

\* edge confidences of the node tables given to arbor_confidence
ConfidenceValues == {1, 4, 5}

\* the defaults of prune_by_strahler (line 418) next to inplace
PruneDefaults(inplace) ==
    [to_prune |-> {1}, reroot_soma |-> TRUE, inplace |-> inplace,
     force_strahler_update |-> FALSE, relocate_connectors |-> FALSE]

InplaceEntries == {"strahler_index", "arbor_confidence", "prune_by_strahler"}

InitInplace ==
    /\ \E e \in InplaceEntries : \E b \in BOOLEAN :
         /\ args = [entry |-> e, inplace |-> b]
         /\ \E n \in 1..MaxInplaceNodes :
              \E t \in Forests(n) :
                 \E c \in ConnTables(n) :
                    \E s \in {None, n} :
                       \E conf \in [1..n -> ConfidenceValues] :
                          x = IF e = "arbor_confidence"
                              THEN WithConfidence(
                                      MakeNeuron(t, c, s, NoPos(t)), conf)
                              ELSE MakeNeuron(t, c, s, NoPos(t))
    /\ pc = "fresh"
    /\ ret = None
    /\ loc = NoLocals

\* strahler_index(x, inplace=inplace)
InplaceStrahler ==
    /\ pc = "fresh"
    /\ args.entry = "strahler_index"
    /\ LET after == strahler_index(x, "standard") IN
       /\ x' = CallerAfter(args.inplace, x, after)
       /\ ret' = IF args.inplace THEN None ELSE after
    /\ pc' = "done"
    /\ UNCHANGED <<args, loc>>

\* arbor_confidence(x, inplace=inplace)
InplaceConfidence ==
    /\ pc = "fresh"
    /\ args.entry = "arbor_confidence"
    /\ LET after == arbor_confidence(x, DefaultConfidences) IN
       /\ x' = CallerAfter(args.inplace, x, after)
       /\ ret' = IF args.inplace THEN None ELSE after
    /\ pc' = "done"
    /\ UNCHANGED <<args, loc>>

\* prune_by_strahler(x, inplace=inplace)
InplacePrune ==
    /\ pc = "fresh"
    /\ args.entry = "prune_by_strahler"
    /\ LET after == prune_by_strahler(x, PruneDefaults(args.inplace)).neuron IN
       /\ x' = CallerAfter(args.inplace, x, after)
       /\ ret' = IF args.inplace THEN None ELSE after
    /\ pc' = "done"
    /\ UNCHANGED <<args, loc>>

NextInplace ==
    \/ InplaceStrahler
    \/ InplaceConfidence
    \/ InplacePrune

SpecInplace == InitInplace /\ [][NextInplace]_vars

\* the column a call of the entry point writes
DerivedColumn(entry) ==
    IF entry = "arbor_confidence" THEN "arbor_confidence"
    ELSE "strahler_index"

Carrier == IF args.inplace THEN x ELSE ret

UserEntries ==
    {[kind |-> "int", int |-> 7, str |-> ""],
     [kind |-> "str", int |-> 0, str |-> "7"],
     [kind |-> "str", int |-> 0, str |-> "ann"],
     [kind |-> "str", int |-> 0, str |-> "bob"]}

\* int(u): the integer itself, the number a string of digits spells, and a
\* ValueError for every other string
IntOf(u) ==
    IF u.kind = "int" THEN [ok |-> TRUE, val |-> u.int]
    ELSE IF u.str = "7" THEN [ok |-> TRUE, val |-> 7]
    ELSE [ok |-> FALSE, val |-> 0]

UserColumns == <<"login", "last_name", "full_name", "first_name">>

\* line 408: the ids of the rows whose column col equals u, in row order
FoundIn(user_list, col, u) ==
    LET rows == {k \in DOMAIN user_list : user_list[k][col] = u}
    IN [j \in 1..Cardinality(rows) |->
           user_list[CHOOSE k \in rows :
                        Cardinality({i \in rows : i <= k}) = j].id]

RECURSIVE FoundFrom(_, _, _)
\* lines 405-409: found after the loop over the columns from number c on;
\* the loop stops at the first column that holds u
FoundFrom(user_list, u, c) ==
    IF c > Len(UserColumns) THEN <<>>
    ELSE IF FoundIn(user_list, UserColumns[c], u) # <<>>
    THEN FoundIn(user_list, UserColumns[c], u)
    ELSE FoundFrom(user_list, u, c + 1)

RECURSIVE ConvertFrom(_, _, _)
\* lines 400-417: user_ids after the loop over the entries of x from k on
ConvertFrom(entries, user_list, k) ==
    IF k > Len(entries) THEN <<>>
    ELSE LET u == entries[k]
             found == FoundFrom(user_list, u.str, 1)
             rest == ConvertFrom(entries, user_list, k + 1)
         IN IF IntOf(u).ok THEN <<IntOf(u).val>> \o rest
            ELSE IF Len(found) # 1 THEN rest
            ELSE <<found[1]>> \o rest

\* the call: the returned list, or the exception that ended the call;
\* passed says whether the caller handed user_list in (a DataFrame) or left
\* it None, in which case line 395 fetches it
eval_user_ids(entries, user_list, passed) ==
    IF \A k \in DOMAIN entries : IntOf(entries[k]).ok
    THEN [ids |-> [k \in DOMAIN entries |-> IntOf(entries[k]).val],
          error |-> "none"]
    ELSE IF passed
    THEN \* line 394: truth value of a DataFrame
         [ids |-> <<>>, error |-> "ValueError"]
    ELSE [ids |-> ConvertFrom(entries, user_list, 1), error |-> "none"]

UserNames == {"ann", "bob"}

\* user lists of up to MaxUsers rows, ids 1, 2, ...
UserLists ==
    UNION {{[k \in 1..n |->
                [id |-> k, login |-> c[k][1], last_name |-> c[k][2],
                 full_name |-> c[k][3], first_name |-> c[k][4]]] :
              c \in [1..n -> UserNames \X UserNames \X {"ann bob", "bob"}
                                \X UserNames]} :
           n \in 0..MaxUsers}

InitUsers ==
    /\ \E n \in 1..MaxEntries : x \in [1..n -> UserEntries]
    /\ \E ul \in UserLists : \E b \in BOOLEAN :
          args = [user_list |-> ul, passed |-> b]
    /\ pc = "fresh"
    /\ ret = None
    /\ loc = NoLocals

\* eval_user_ids(x, user_list)
EvalUserIds ==
    /\ pc = "fresh"
    /\ LET r == eval_user_ids(x, args.user_list, args.passed) IN
       /\ ret' = r.ids
       /\ pc' = IF r.error = "none" THEN "done" ELSE r.error
    /\ UNCHANGED <<x, args, loc>>

NextUsers == EvalUserIds

SpecUsers == InitUsers /\ [][NextUsers]_vars

\* the users that entry u names in any of the four columns
Matching(user_list, u) ==
    {k \in DOMAIN user_list :
        \E c \in DOMAIN UserColumns : user_list[k][UserColumns[c]] = u.str}

RECURSIVE Resolved(_, _, _)
\* the ids of the entries from k on that are integers or name exactly one
\* user, in input order
Resolved(entries, user_list, k) ==
    IF k > Len(entries) THEN <<>>
    ELSE LET u == entries[k]
             rest == Resolved(entries, user_list, k + 1)
         IN IF IntOf(u).ok THEN <<IntOf(u).val>> \o rest
            ELSE IF Cardinality(Matching(user_list, u)) = 1
            THEN <<user_list[CHOOSE k2 \in Matching(user_list, u) : TRUE].id>>
                 \o rest
            ELSE rest

\* C18: eval_user_ids ends normally on every list and returns, in input
\* order, the id of every entry that is an integer or names exactly one
\* user; the other entries are left out.
C18_BatchResolvedWithSkips ==
    pc # "fresh" =>
        /\ pc = "done"
        /\ ret = Resolved(x, args.user_list, 1)

====
